---- MODULE Spec2Model ----
(***************************************************************************)
(* The ask_python notebook as a state machine.  A run executes the         *)
(* notebook's code cells top to bottom, statement by statement; the cells  *)
(* the notebook marks as optional (the openai.api_key cell, the download   *)
(* cell, one of the two index-building cells) are chosen when the run      *)
(* starts.  Everything outside the notebook (pip, the HTTP server, the     *)
(* archive bytes, the Milvus server, the embedding model, the query        *)
(* engine's LLM) answers nondeterministically.                             *)
(***************************************************************************)
EXTENDS Naturals, Sequences, FiniteSets

VARIABLES run   \* run[r]: the state of run r (kernel, file system, histories)

vars == << run >>

---------------------------------------------------------------------------
(* Bounds of the model *)
MaxMembers == 2      \* most members of a downloaded archive
MaxInitFiles == 1    \* most files on disk when a run starts

(* Values written in the notebook *)
DOCS_URL == "https://docs.python.org/3/archives/python-3.11.5-docs-text.tar.bz2"
InputDir == "python_docs"
RequiredExts == {".txt"}
Recursive == TRUE
OpenAIDim == 1536
LocalDim == 1024
MilvusHost == "127.0.0.1"
MilvusPort == "default_server.listen_port"
DefaultEmbedModel == "openai:text-embedding-ada-002"
LocalEmbedModel == "local:BAAI/bge-large-en"
Question1 == "What is a list?"
Question2 == "How do I create a dictionary?"
Separator == "---"

(* The environment's vocabulary *)
Exts == {".txt", ".html"}
Dirs == {InputDir, "elsewhere"}
\* A file lies in python_docs or elsewhere, directly in its directory or
\* nested in subdirectories (at any depth), and has an extension.  Of the
\* files elsewhere the model keeps the one that could be mistaken for a
\* document: a .txt file.
Files == {f \in [dir : Dirs, nested : BOOLEAN, ext : Exts] :
             f.dir = InputDir \/ (f.ext = ".txt" /\ ~f.nested)}
Members == [nested : BOOLEAN, ext : Exts]
Answers == {"answer A", "answer B"}
Variants == {"openai", "local"}

None == [tag |-> "None"]
NoError == [at |-> "", kind |-> ""]

\* An archive holds at least one member and lists each once; the model takes
\* the members in one order (top-level first, .txt first), as the order
\* changes no outcome.
MemberKey(m) == (IF m.nested THEN 2 ELSE 0) + (IF m.ext = ".txt" THEN 0 ELSE 1)

Archives ==
    {q \in UNION {[1 .. k -> Members] : k \in 1 .. MaxMembers} :
        \A i, j \in 1 .. Len(q) : i < j => MemberKey(q[i]) < MemberKey(q[j])}

Range(q) == {q[i] : i \in 1 .. Len(q)}
Last(q) == q[Len(q)]

---------------------------------------------------------------------------
(* The notebook's statements, in the order the cells hold them.  The two   *)
(* print(query_engine.query(...)) statements are two positions each: the   *)
(* argument is evaluated (the query) before print is called.               *)
Order ==
    << "pip", "imports", "apikey", "docs_url",
       "get", "open", "extractall",
       "reader", "load_data",
       "vs_openai", "sc_openai", "fd_openai",
       "svc_local", "vs_local", "sc_local", "fd_local",
       "as_query_engine",
       "query1", "print1", "sep", "query2", "print2" >>

Stmts == Range(Order)
Final == {"done", "failed"}

RankOf == [st \in Stmts |-> CHOOSE i \in 1 .. Len(Order) : Order[i] = st]
Rank(stmt) == RankOf[stmt]

DownloadCell == {"get", "open", "extractall"}
OpenAICell == {"vs_openai", "sc_openai", "fd_openai"}
LocalCell == {"svc_local", "vs_local", "sc_local", "fd_local"}

\* whether a run with this plan executes the statement: the cells the
\* notebook's text makes optional are run only when the plan says so
Selected(stmt, plan) ==
    CASE stmt = "apikey" -> plan.setKey
      [] stmt \in DownloadCell -> plan.download
      [] stmt \in OpenAICell -> plan.variant = "openai"
      [] stmt \in LocalCell -> plan.variant = "local"
      [] OTHER -> TRUE

\* the first statement below stmt that the plan selects
NextSelected(stmt, plan) ==
    LET later == {i \in 1 .. Len(Order) : i > Rank(stmt) /\ Selected(Order[i], plan)}
    IN  IF later = {} THEN "done"
        ELSE Order[CHOOSE i \in later : \A j \in later : i <= j]

\* Succ with the index-building cells left out of the run
SuccSkippingIndex(stmt, plan) ==
    IF stmt = "load_data" THEN "as_query_engine" ELSE NextSelected(stmt, plan)

\* the statement executed after stmt when stmt completes
Succ(stmt, plan) == NextSelected(stmt, plan)

ImportedNames ==
    {"requests", "tarfile", "display", "ServiceContext", "SimpleDirectoryReader",
     "VectorStoreIndex", "HuggingFaceEmbedding", "StorageContext",
     "MilvusVectorStore", "default_server", "openai", "connections", "utility"}

\* the names a statement reads from the kernel's namespace
Reads(stmt) ==
    CASE stmt = "apikey" -> {"openai", "OPENAI_KEY"}
      [] stmt = "get" -> {"requests", "DOCS_URL"}
      [] stmt = "open" -> {"tarfile", "response"}
      [] stmt = "extractall" -> {"file"}
      [] stmt = "reader" -> {"SimpleDirectoryReader"}
      [] stmt = "load_data" -> {"reader"}
      [] stmt \in {"vs_openai", "vs_local"} -> {"MilvusVectorStore", "default_server"}
      [] stmt \in {"sc_openai", "sc_local"} -> {"StorageContext", "vector_store"}
      [] stmt = "fd_openai" -> {"VectorStoreIndex", "docs", "storage_context"}
      [] stmt = "svc_local" -> {"ServiceContext"}
      [] stmt = "fd_local" ->
            {"VectorStoreIndex", "docs", "storage_context", "service_context"}
      [] stmt = "as_query_engine" -> {"index"}
      [] stmt \in {"query1", "query2"} -> {"query_engine"}
      [] OTHER -> {}

\* the names a statement assigns
Assigned(stmt) ==
    CASE stmt = "docs_url" -> {"DOCS_URL"}
      [] stmt = "get" -> {"response"}
      [] stmt = "open" -> {"file"}
      [] stmt = "reader" -> {"reader"}
      [] stmt = "load_data" -> {"docs"}
      [] stmt \in {"vs_openai", "vs_local"} -> {"vector_store"}
      [] stmt \in {"sc_openai", "sc_local"} -> {"storage_context"}
      [] stmt \in {"fd_openai", "fd_local"} -> {"index"}
      [] stmt = "svc_local" -> {"service_context"}
      [] stmt = "as_query_engine" -> {"query_engine"}
      [] OTHER -> {}

\* Writes with the imports cell lacking from config import OPENAI_KEY
WritesWithoutKey(stmt) ==
    IF stmt = "imports" THEN ImportedNames ELSE Assigned(stmt)

\* the names a statement binds when it completes
Writes(stmt) ==
    IF stmt = "imports" THEN ImportedNames \cup {"OPENAI_KEY"} ELSE Assigned(stmt)

---------------------------------------------------------------------------
(* The state of one run *)
Plans == [variant : Variants, download : BOOLEAN, setKey : BOOLEAN]

InitRun(plan, config, server, fs) ==
    [ plan |-> plan,             \* the optional cells this run executes
      config |-> config,         \* config.py exists beside the notebook
      server |-> server,         \* a Milvus server listens on the endpoint
      installed |-> FALSE,       \* the packages of the pip cell are importable
      fs |-> fs,                 \* the files on disk
      pc |-> "pip",              \* the statement to execute next
      ns |-> {},                 \* the names bound in the kernel
      response |-> None,         \* what requests.get returned
      apiKey |-> "unset",        \* openai.api_key
      xfer |-> "none",           \* the HTTP transfer: none, open, closed
      stream |-> << >>,          \* archive members not yet read from response.raw
      docs |-> {},
      service_context |-> None,
      vector_store |-> None,
      storage_context |-> None,
      index |-> None,
      query_engine |-> None,
      pending |-> None,          \* a value computed and not yet consumed
      out |-> << >>,             \* the lines printed
      calls |-> << >>,           \* the external calls made
      resp |-> << >>,            \* the external responses received
      trace |-> << >>,           \* the statements started
      fin |-> << >>,             \* the statements completed
      err |-> NoError ]          \* the exception that ended the run

Begin(s) == [s EXCEPT !.trace = Append(@, s.pc)]

Call(s, site, arg, val) ==
    [s EXCEPT !.calls = Append(@, [site |-> site, arg |-> arg]),
              !.resp = Append(@, [site |-> site, val |-> val])]

\* Raise with a handler that runs the failed statement again
RaiseAndRetry(s, kind) == [s EXCEPT !.err = NoError]

\* an exception nobody catches: the kernel stops the run at this statement
Raise(s, kind) == [s EXCEPT !.pc = "failed", !.err = [at |-> s.pc, kind |-> kind]]

\* the statement returns: its names are bound and the next statement is due
Complete(s) ==
    [s EXCEPT !.pc = Succ(s.pc, s.plan),
              !.ns = @ \cup Writes(s.pc),
              !.fin = Append(@, s.pc)]

Defined(s) == Reads(s.pc) \subseteq s.ns

(* What the outside may answer at each call site *)
Universe(site, s) ==
    CASE site = "pip" -> {"ok", "error"}
      [] site = "get" ->
            {[kind |-> "ConnectionError", body |-> << >>],
             [kind |-> "HTTP404", body |-> << >>]}
            \cup {[kind |-> "HTTP200", body |-> a] : a \in Archives}
      [] site = "read" -> {"ok", "IncompleteRead"}
      [] site = "load_model" -> {"ok", "error"}
      [] site = "connect" -> IF s.server THEN {"ok"} ELSE {"ConnectionError"}
      [] site = "embed" -> {"ok", "error"}
      [] site = "insert" ->
            IF s.pending.dim # s.storage_context.vector_store.dim
            THEN {"dimension mismatch"}
            ELSE {"ok", "error"}
      [] site = "query" -> Answers \cup {"error"}

\* Run 1 may receive any answer; a second run, started in the same
\* environment, receives run 1's answers again, one by one.
Offered(r, site) ==
    IF r = 1 THEN Universe(site, run[r])
    ELSE LET k == Len(run[r].resp) + 1
         IN  IF k <= Len(run[1].resp) /\ run[1].resp[k].site = site
             THEN {run[1].resp[k].val} ELSE {}

\* the call the next step of a run makes, if any: a statement that reads an
\* unbound name raises before it calls anything
Site(s) ==
    CASE s.pc \in {"fd_openai", "fd_local"} /\ s.pending # None -> "insert"
      [] ~Defined(s) -> "none"
      [] s.pc = "pip" -> "pip"
      [] s.pc = "get" -> "get"
      [] s.pc = "extractall" /\ s.stream # << >> -> "read"
      [] s.pc = "svc_local" -> "load_model"
      [] s.pc \in {"vs_openai", "vs_local"} -> "connect"
      [] s.pc \in {"fd_openai", "fd_local"} -> "embed"
      [] s.pc \in {"query1", "query2"} -> "query"
      [] OTHER -> "none"

Answer(r) == IF Site(run[r]) = "none" THEN {None} ELSE Offered(r, Site(run[r]))

Ready(r) == run[r].pc \in Stmts /\ Answer(r) # {}

At(r, stmts) == run[r].pc \in stmts

---------------------------------------------------------------------------
(* !pip install ...: a shell escape, whose failure raises nothing *)
DoPip(s, v) ==
    Complete([Call(Begin(s), "pip", "install", v) EXCEPT !.installed = (v = "ok")])

Pip(r) ==
    /\ At(r, {"pip"})
    /\ \E v \in Answer(r) : run' = [run EXCEPT ![r] = DoPip(run[r], v)]

(* the imports cell: the packages, then from config import OPENAI_KEY *)
DoImports(s) ==
    LET b == Begin(s)
    IN  IF ~s.installed THEN Raise(b, "ModuleNotFoundError: requests")
        ELSE IF ~s.config
             THEN Raise([b EXCEPT !.ns = @ \cup ImportedNames],
                        "ModuleNotFoundError: config")
             ELSE Complete(b)

Imports(r) ==
    /\ At(r, {"imports"})
    /\ run' = [run EXCEPT ![r] = DoImports(run[r])]

(* statements that only bind names or set attributes *)
PureStmts == {"apikey", "docs_url", "reader", "sc_openai", "sc_local", "as_query_engine"}

DoAssign(s) ==
    LET b == Begin(s)
    IN  IF ~Defined(s) THEN Raise(b, "NameError")
        ELSE Complete(
            [b EXCEPT !.apiKey = IF s.pc = "apikey" THEN "OPENAI_KEY" ELSE @,
                      !.storage_context =
                          IF s.pc \in {"sc_openai", "sc_local"}
                          THEN [vector_store |-> s.vector_store] ELSE @,
                      !.query_engine =
                          IF s.pc = "as_query_engine" THEN [index |-> s.index] ELSE @])

Assign(r) ==
    /\ At(r, PureStmts)
    /\ run' = [run EXCEPT ![r] = DoAssign(run[r])]

(* response = requests.get(DOCS_URL, stream=True): returns once the        *)
(* status line and headers are in; the body stays on the socket            *)
DoGet(s, v) ==
    LET b == Begin(s)
    IN  IF ~Defined(s) THEN Raise(b, "NameError")
        ELSE LET c == Call(b, "get", DOCS_URL, v)
             IN  IF v.kind = "ConnectionError" THEN Raise(c, "ConnectionError")
                 ELSE Complete([c EXCEPT !.response = v, !.xfer = "open",
                                         !.stream = v.body])

Get(r) ==
    /\ At(r, {"get"})
    /\ \E v \in Answer(r) : run' = [run EXCEPT ![r] = DoGet(run[r], v)]

(* file = tarfile.open(fileobj=response.raw, mode="r|bz2") *)
DoOpen(s) ==
    LET b == Begin(s)
    IN  IF ~Defined(s) THEN Raise(b, "NameError")
        ELSE IF s.response.kind # "HTTP200"
             THEN Raise([b EXCEPT !.xfer = "closed"], "ReadError")
             ELSE Complete(b)

Open(r) ==
    /\ At(r, {"open"})
    /\ run' = [run EXCEPT ![r] = DoOpen(run[r])]

(* file.extractall(path="python_docs"): one member per step, read from the *)
(* socket and written below python_docs; the statement returns at the end  *)
(* of the stream                                                           *)
Extracted(m) == [dir |-> InputDir, nested |-> m.nested, ext |-> m.ext]

DoExtract(s, v) ==
    LET b == IF s.trace # << >> /\ Last(s.trace) = s.pc THEN s ELSE Begin(s)
    IN  IF ~Defined(s) THEN Raise(b, "NameError")
        ELSE IF s.stream = << >> THEN Complete([b EXCEPT !.xfer = "closed"])
        ELSE LET c == Call(b, "read", Len(s.stream), v)
             IN  IF v # "ok" THEN Raise([c EXCEPT !.xfer = "closed"], "IncompleteRead")
                 ELSE [c EXCEPT !.fs = @ \cup {Extracted(Head(s.stream))},
                                !.stream = Tail(@)]

ExtractAll(r) ==
    /\ At(r, {"extractall"})
    /\ \E v \in Answer(r) :
          run' = [run EXCEPT ![r] = DoExtract(run[r], v)]

(* reader = SimpleDirectoryReader(input_dir="python_docs",                 *)
(*     required_exts=[".txt"], recursive=True); docs = reader.load_data()  *)
\* load_data without recursive=True
load_data_flat(fs) ==
    {f \in fs : f.dir = InputDir /\ f.ext \in RequiredExts /\ ~f.nested}

load_data(fs) ==
    {f \in fs : /\ f.dir = InputDir
                /\ f.ext \in RequiredExts
                /\ Recursive \/ ~f.nested}

\* DoLoadData with a reader that leaves a cache file beside the documents
DoLoadDataCaching(s) ==
    Complete([Begin(s) EXCEPT
                 !.docs = load_data(s.fs),
                 !.fs = @ \cup {[dir |-> InputDir, nested |-> FALSE, ext |-> ".html"]}])

DoLoadData(s) ==
    LET b == Begin(s)
    IN  IF ~Defined(s) THEN Raise(b, "NameError")
        ELSE Complete([b EXCEPT !.docs = load_data(s.fs)])

LoadDataStmt(r) ==
    /\ At(r, {"load_data"})
    /\ run' = [run EXCEPT ![r] = DoLoadData(run[r])]

(* service_context = ServiceContext.from_defaults(                         *)
(*     embed_model="local:BAAI/bge-large-en")                              *)
DoServiceContext(s, v) ==
    LET b == Begin(s)
    IN  IF ~Defined(s) THEN Raise(b, "NameError")
        ELSE LET c == Call(b, "load_model", LocalEmbedModel, v)
             IN  IF v # "ok" THEN Raise(c, "ModelLoadError")
                 ELSE Complete([c EXCEPT !.service_context =
                                             [embed_model |-> LocalEmbedModel]])

ServiceContextStmt(r) ==
    /\ At(r, {"svc_local"})
    /\ \E v \in Answer(r) :
          run' = [run EXCEPT ![r] = DoServiceContext(run[r], v)]

(* vector_store = MilvusVectorStore(dim=..., host="127.0.0.1",             *)
(*     port=default_server.listen_port): connects to the server            *)
\* StoreDim with the OpenAI cell's dimension pasted into the local cell
StoreDimPasted(stmt) == OpenAIDim

StoreDim(stmt) == IF stmt = "vs_openai" THEN OpenAIDim ELSE LocalDim

Endpoint(stmt) == [host |-> MilvusHost, port |-> MilvusPort]

\* DoVectorStore with a cell that starts default_server before connecting
DoVectorStoreStarting(s, v) ==
    Complete([Call(Begin(s), "connect", Endpoint(s.pc), "ok") EXCEPT
                 !.server = TRUE,
                 !.vector_store = [dim |-> StoreDim(s.pc),
                                   host |-> Endpoint(s.pc).host,
                                   port |-> Endpoint(s.pc).port]])

DoVectorStore(s, v) ==
    LET b == Begin(s)
    IN  IF ~Defined(s) THEN Raise(b, "NameError")
        ELSE LET c == Call(b, "connect", Endpoint(s.pc), v)
             IN  IF v # "ok" THEN Raise(c, "MilvusException")
                 ELSE Complete([c EXCEPT !.vector_store =
                                   [dim |-> StoreDim(s.pc),
                                    host |-> Endpoint(s.pc).host,
                                    port |-> Endpoint(s.pc).port]])

VectorStoreStmt(r) ==
    /\ At(r, {"vs_openai", "vs_local"})
    /\ \E v \in Answer(r) :
          run' = [run EXCEPT ![r] = DoVectorStore(run[r], v)]

(* index = VectorStoreIndex.from_documents(docs,                           *)
(*     storage_context=storage_context[, service_context=service_context]) *)
(* embeds the documents, then inserts the vectors into the store           *)
EmbedModel(s) ==
    IF s.pc = "fd_local" THEN s.service_context.embed_model ELSE DefaultEmbedModel

\* the length of the vectors an embedding model produces
EmbedDim(model) == IF model = LocalEmbedModel THEN 1024 ELSE 1536

DoEmbed(s, v) ==
    LET b == Begin(s)
    IN  IF ~Defined(s) THEN Raise(b, "NameError")
        ELSE LET c == Call(b, "embed", [model |-> EmbedModel(s), docs |-> s.docs], v)
             IN  IF v # "ok" THEN Raise(c, "APIError")
                 ELSE [c EXCEPT !.pending = [model |-> EmbedModel(s),
                                             dim |-> EmbedDim(EmbedModel(s)),
                                             docs |-> s.docs]]

FromDocuments(r) ==
    /\ At(r, {"fd_openai", "fd_local"})
    /\ run[r].pending = None
    /\ \E v \in Answer(r) : run' = [run EXCEPT ![r] = DoEmbed(run[r], v)]

DoUpsert(s, v) ==
    LET c == Call(s, "insert",
                  [dim |-> s.pending.dim, docs |-> s.pending.docs,
                   store |-> s.storage_context.vector_store], v)
    IN  IF v # "ok" THEN Raise([c EXCEPT !.pending = None], "MilvusException")
        ELSE Complete([c EXCEPT !.pending = None,
                                !.index = [embed_model |-> s.pending.model,
                                           docs |-> s.pending.docs,
                                           store |-> s.storage_context.vector_store]])

Upsert(r) ==
    /\ At(r, {"fd_openai", "fd_local"})
    /\ run[r].pending # None
    /\ \E v \in Answer(r) : run' = [run EXCEPT ![r] = DoUpsert(run[r], v)]

(* print(query_engine.query("...")): the query, then the print *)
\* QuestionOf with the two questions exchanged
QuestionOfSwapped(stmt) == IF stmt = "query1" THEN Question2 ELSE Question1

QuestionOf(stmt) == IF stmt = "query1" THEN Question1 ELSE Question2

DoQueryAbout(s, q, v) ==
    LET b == Begin(s)
    IN  IF ~Defined(s) THEN Raise(b, "NameError")
        ELSE LET c == Call(b, "query", q, v)
             IN  IF v = "error" THEN Raise(c, "APIError")
                 ELSE Complete([c EXCEPT !.pending = [text |-> v]])

DoQuery(s, v) == DoQueryAbout(s, QuestionOf(s.pc), v)

\* Query with the question drawn from the two in no fixed order
QueryInAnyOrder(r) ==
    /\ At(r, {"query1", "query2"})
    /\ \E v \in Answer(r), q \in {Question1, Question2} :
          run' = [run EXCEPT ![r] = DoQueryAbout(run[r], q, v)]

Query(r) ==
    /\ At(r, {"query1", "query2"})
    /\ \E v \in Answer(r) : run' = [run EXCEPT ![r] = DoQuery(run[r], v)]

Printed(s) == IF s.pc = "sep" THEN Separator ELSE s.pending.text

DoPrint(s) ==
    Complete([Begin(s) EXCEPT !.out = Append(@, Printed(s)), !.pending = None])

PrintStmt(r) ==
    /\ At(r, {"print1", "sep", "print2"})
    /\ run' = [run EXCEPT ![r] = DoPrint(run[r])]

---------------------------------------------------------------------------
Step(r) ==
    \/ Pip(r) \/ Imports(r) \/ Assign(r)
    \/ Get(r) \/ Open(r) \/ ExtractAll(r)
    \/ LoadDataStmt(r)
    \/ ServiceContextStmt(r) \/ VectorStoreStmt(r) \/ FromDocuments(r) \/ Upsert(r)
    \/ Query(r) \/ PrintStmt(r)

Next == Step(1)

\* The two runs share nothing but the answers, so the order of their steps
\* changes no outcome: the second run steps as soon as its answer is there.
NextPair == Step(2) \/ (~Ready(2) /\ Step(1))

InitialTrees == {t \in SUBSET Files : Cardinality(t) <= MaxInitFiles}

\* one run, in any environment and with any choice of the optional cells
Init ==
    run \in {[r \in {1} |-> InitRun(p, c, sv, t)] :
                p \in Plans, c \in BOOLEAN, sv \in BOOLEAN, t \in InitialTrees}

Spec == Init /\ [][Next]_vars

\* two runs of the same index-building variant that start in the same
\* environment: the second is given the answers the first received
InitPair ==
    run \in {[r \in {1, 2} |-> InitRun(pq[r], c, sv, t)] :
                pq \in {x \in Plans \X Plans : x[1].variant = x[2].variant},
                c \in BOOLEAN, sv \in BOOLEAN, t \in InitialTrees}

SpecPair == InitPair /\ [][NextPair]_vars

---------------------------------------------------------------------------
(* Properties of a run *)
R == run[1]

Failed(s) == s.pc = "failed"
Done(s) == s.pc = "done"
QueryCalls(s) == SelectSeq(s.calls, LAMBDA c : c.site = "query")
QueryAnswers(s) == SelectSeq(s.resp, LAMBDA a : a.site = "query" /\ a.val # "error")
IsPrefix(p, q) == Len(p) <= Len(q) /\ \A i \in 1 .. Len(p) : p[i] = q[i]
NoRepeat(q) == \A i, j \in 1 .. Len(q) : i < j => q[i] # q[j]

\* the steps of the pipeline and the statements that make each
Pipeline == << "fetch", "extract", "load", "index", "engine", "query", "print" >>

StepOf(stmt) ==
    CASE stmt = "get" -> "fetch"
      [] stmt \in {"open", "extractall"} -> "extract"
      [] stmt \in {"reader", "load_data"} -> "load"
      [] stmt \in OpenAICell \cup LocalCell -> "index"
      [] stmt = "as_query_engine" -> "engine"
      [] stmt \in {"query1", "query2"} -> "query"
      [] stmt \in {"print1", "sep", "print2"} -> "print"
      [] OTHER -> "setup"

\* the steps that are part of the run, have started, and have completed: a
\* step has completed when each of its statements has returned and, for the
\* fetch, the archive's bytes have all arrived
SelectedStmts(s) == {st \in Stmts : Selected(st, s.plan)}
InRun(s) == {StepOf(st) : st \in SelectedStmts(s)} \ {"setup"}
Started(s) == {StepOf(st) : st \in Range(s.trace)} \ {"setup"}
Completed(s) ==
    (InRun(s) \ {StepOf(st) : st \in SelectedStmts(s) \ Range(s.fin)})
        \ (IF s.xfer = "closed" THEN {} ELSE {"fetch"})
StepNo(step) == CHOOSE i \in 1 .. Len(Pipeline) : Pipeline[i] = step
IndexBuilt(s) ==
    /\ s.index # None
    /\ \E st \in {"fd_openai", "fd_local"} : st \in Range(s.fin)
    /\ "as_query_engine" \in Range(s.fin)

\* C1 as stated: the seven steps run one after the other, none starting
\* before the one before it has completed, at most one in progress, and no
\* query before the index and the query engine exist.
C1_StepsStrictlySequential ==
    LET inrun == InRun(R)
        started == Started(R)
        completed == Completed(R)
    IN  /\ \A p \in inrun, q \in started : StepNo(p) < StepNo(q) => p \in completed
        /\ Cardinality(started \ completed) <= 1
        /\ "query1" \in Range(R.trace) => IndexBuilt(R)

Streamed(p, q) ==
    \/ p = "fetch" /\ q = "extract"
    \/ p = "query" /\ q = "print"

\* C1 amended: the statements run one at a time in the notebook's order and
\* no query precedes the index and the query engine; a step starts only after
\* the step before it has completed, except that extraction starts once
\* requests.get has returned, while the archive's bytes are still arriving,
\* and printing starts once the first query has returned, before the second.
C1_StatementsSequential ==
    LET inrun == InRun(R)
        started == Started(R)
        completed == Completed(R)
    IN  /\ R.trace = SelectSeq(Order, LAMBDA st : st \in Range(R.trace))
        /\ IsPrefix(R.fin, R.trace) /\ Len(R.trace) <= Len(R.fin) + 1
        /\ "query1" \in Range(R.trace) => IndexBuilt(R)
        /\ \A p \in inrun, q \in started :
              (StepNo(p) < StepNo(q) /\ ~Streamed(p, q)) => p \in completed
        /\ "extract" \in started => "get" \in Range(R.fin)
        /\ "print" \in started => "query1" \in Range(R.fin)

C1_Witness ==
    /\ Done(R) /\ R.plan.download /\ Len(R.out) = 3
    /\ \E f \in R.fs : f.dir = InputDir /\ f \in R.docs

FailureAnswer(a) ==
    \/ a.site = "get" /\ a.val.kind = "ConnectionError"
    \/ a.site = "read" /\ a.val # "ok"
    \/ a.site \in {"load_model", "connect", "embed", "insert"} /\ a.val # "ok"
    \/ a.site = "query" /\ a.val = "error"

\* C2: an exception ends the run at the statement that raised it: a failed
\* external call is the last thing the run does, the failing statement is
\* neither run again nor completed, no statement is started twice, and no
\* statement follows it.
C2_FailureStopsRun ==
    /\ Failed(R) <=> R.err # NoError
    /\ Failed(R) => /\ R.trace # << >>
                    /\ Last(R.trace) = R.err.at
                    /\ R.err.at \notin Range(R.fin)
    /\ NoRepeat(R.trace)
    /\ \A k \in 1 .. Len(R.resp) :
          FailureAnswer(R.resp[k]) => Failed(R) /\ k = Len(R.resp)
    /\ Len(R.calls) = Len(R.resp)

C2_Witness ==
    /\ Failed(R) /\ R.err.at = "fd_openai" /\ R.err.kind = "APIError"
    /\ FailureAnswer(Last(R.resp))

\* C3 as stated: a run of the local-model variant whose packages are
\* installed is not stopped at the imports cell by the absence of config.py.
C3_KeyFileOptional ==
    (R.plan.variant = "local" /\ ~R.config /\ R.installed)
        => ~(Failed(R) /\ R.err.at = "imports")

InsertCalls(s) == SelectSeq(s.calls, LAMBDA c : c.site = "insert")
EmbedCalls(s) == SelectSeq(s.calls, LAMBDA c : c.site = "embed")

C5_TwoQueriesInOrder ==
    LET q == QueryCalls(R)
        a == QueryAnswers(R)
    IN  /\ IsPrefix(q, << [site |-> "query", arg |-> "What is a list?"],
                          [site |-> "query", arg |-> "How do I create a dictionary?"] >>)
        /\ Len(R.out) > 0 => Len(a) >= 1 /\ R.out[1] = a[1].val
        /\ Len(R.out) > 1 => R.out[2] = "---"
        /\ Len(R.out) > 2 => Len(a) = 2 /\ R.out[3] = a[2].val
        /\ Len(R.out) <= 3
        /\ Len(q) = 2 => Len(R.out) >= 2
        /\ Done(R) => Len(q) = 2 /\ Len(R.out) = 3

C5_Witness == Done(R) /\ R.out[1] # R.out[3] /\ R.out[2] = Separator

ExpectedDocs(s) == {f \in s.fs : f.dir = "python_docs" /\ f.ext = ".txt"}

\* C7: once loaded, docs holds exactly the files below python_docs, at any
\* depth, whose extension is .txt, and exactly these are embedded and
\* inserted.
C7_LoadsExactlyTxt ==
    /\ "load_data" \in Range(R.fin) => R.docs = ExpectedDocs(R)
    /\ \A k \in 1 .. Len(R.calls) :
          R.calls[k].site \in {"embed", "insert"} =>
              R.calls[k].arg.docs = ExpectedDocs(R)

C7_Witness ==
    /\ Len(InsertCalls(R)) = 1
    /\ \E f \in R.docs : f.nested
    /\ \E f \in R.fs \ R.docs : f.dir = InputDir
    /\ \E f \in R.fs \ R.docs : f.dir # InputDir /\ f.ext = ".txt"

SameCall(c, d) == c.site = d.site /\ c.arg = d.arg
SameAnswer(a, b) == a.site = b.site /\ a.val = b.val
SameAnswers(p, q) == Len(p) = Len(q) /\ \A k \in 1 .. Len(p) : SameAnswer(p[k], q[k])

\* C6: of two runs of the same variant in the same environment, the second
\* receiving the answers the first received, the second makes the calls the
\* first made, with the same arguments, as far as it has got; and when both
\* have ended having received the same answers, they have made the same
\* calls and printed the same lines.
C6_DeterminedByAnswers ==
    LET a == run[1]
        b == run[2]
    IN  a.plan.variant = b.plan.variant =>
          /\ Len(b.calls) <= Len(a.calls)
          /\ \A k \in 1 .. Len(b.calls) : SameCall(a.calls[k], b.calls[k])
          /\ (a.pc \in Final /\ b.pc \in Final /\ SameAnswers(a.resp, b.resp)) =>
                /\ Len(a.calls) = Len(b.calls)
                /\ a.out = b.out
                /\ a.pc = b.pc /\ a.err = b.err

C6_Witness ==
    /\ Done(run[1]) /\ Done(run[2])
    /\ run[1].plan.setKey # run[2].plan.setKey
    /\ run[1].plan.download /\ run[2].plan.download
    /\ Len(run[2].out) = 3 /\ Len(QueryCalls(run[2])) = 2

FromDownload == {"response", "file"}

\* C8: only file.extractall changes the files on disk; no statement outside
\* the download cell reads a name the download cell binds, so a run that
\* skips the cell never meets an unbound name; and docs is a function of the
\* files below python_docs alone.
C8_DownloadOptional ==
    /\ [][run'[1].fs # run[1].fs => run[1].pc = "extractall"]_vars
    /\ [](\A st \in Range(R.trace) \ DownloadCell : Reads(st) \cap FromDownload = {})
    /\ [](~R.plan.download =>
            /\ R.ns \cap FromDownload = {}
            /\ Range(R.trace) \cap DownloadCell = {}
            /\ R.err.kind # "NameError")
    /\ []("load_data" \in Range(R.fin) =>
            /\ R.docs \subseteq {f \in R.fs : f.dir = "python_docs"}
            /\ R.docs = load_data({f \in R.fs : f.dir = "python_docs"}))

C8_Witness ==
    /\ ~R.plan.download /\ Done(R) /\ R.docs # {} /\ Len(R.out) = 3
    /\ InsertCalls(R)[1].arg.docs = R.docs

\* C9: no statement reads an unbound name: the names the next statement
\* reads are bound when it is due, no run ends in a NameError, and the query
\* engine is built from the index of the variant the run executed.
C9_NamesBoundBeforeUse ==
    /\ R.err.kind # "NameError"
    /\ R.pc \in Stmts => Reads(R.pc) \subseteq R.ns
    /\ R.query_engine # None =>
          /\ R.query_engine.index = R.index
          /\ R.index.embed_model =
                (IF R.plan.variant = "openai" THEN DefaultEmbedModel ELSE LocalEmbedModel)

C9_Witness ==
    /\ Done(R) /\ R.plan.variant = "local" /\ R.plan.setKey /\ R.plan.download
    /\ R.query_engine.index.embed_model = LocalEmbedModel

ConnectCalls(s) == SelectSeq(s.calls, LAMBDA c : c.site = "connect")

\* C10: no statement changes whether the Milvus server runs; every
\* connection goes to 127.0.0.1 and default_server.listen_port; and in a run
\* without a server the statement that creates the vector store raises, no
\* index is built and no query is issued.
C10_ServerSuppliedFromOutside ==
    /\ [][run'[1].server = run[1].server]_vars
    /\ [](\A k \in 1 .. Len(ConnectCalls(R)) :
            ConnectCalls(R)[k].arg =
                [host |-> "127.0.0.1", port |-> "default_server.listen_port"])
    /\ [](~R.server =>
            /\ R.vector_store = None /\ R.index = None
            /\ QueryCalls(R) = << >>
            /\ "index" \notin Completed(R)
            /\ (\E st \in {"vs_openai", "vs_local"} : st \in Range(R.trace)) =>
                  Failed(R) /\ R.err.at \in {"vs_openai", "vs_local"}
                            /\ R.err.kind = "MilvusException")

C10_Witness ==
    /\ ~R.server /\ Failed(R) /\ R.err.at = "vs_local"
    /\ R.docs # {} /\ Len(ConnectCalls(R)) = 1
====
